---- MODULE Spec2Model ----
(***************************************************************************)
(* Model of the AdEx neuron simulator: simulate_adex (src/simulate_adex.py)*)
(* and compute_firing_rate / experiment_fi_curve (src/visualize_adex.py).  *)
(*                                                                         *)
(* Arithmetic.  The program computes in IEEE doubles.  Here every quantity *)
(* is an integer and a float division is the exact quotient rounded to the *)
(* nearest integer, ties to even (RoundDiv), so a float operation is "the  *)
(* real result, rounded" on a coarser grid.  np.exp is the table           *)
(* round(e^x), saturating at its last entry as the float saturates at inf. *)
(* Infinities and NaN are not represented: the divisors C, DeltaT and      *)
(* tau_w are never drawn as 0 (numpy yields inf/nan there, no exception).  *)
(* The firing rate, a quotient that is compared with exact values, is kept *)
(* as a reduced fraction.                                                  *)
(***************************************************************************)
EXTENDS Integers, Sequences, FiniteSets, TLC

VARIABLES cfg,          \* the keyword arguments of the simulate_adex call
          pc,           \* position in simulate_adex
          err,          \* the exception that ended the call, "none" otherwise
          n_steps, t, I, V, w, spike_times, i,   \* locals of simulate_adex
          est,          \* one compute_firing_rate call: arguments and result
          sweep         \* experiment_fi_curve: currents, position, results

vars == <<cfg, pc, err, n_steps, t, I, V, w, spike_times, i, est, sweep>>

(***************************************************************************)
(* Bounds of the model                                                     *)
(***************************************************************************)
MaxT == 4          \* longest duration T drawn for an integrator call
MaxLen == 5        \* longest per-step input-current sequence drawn

(***************************************************************************)
(* Helpers: arithmetic and arrays                                          *)
(***************************************************************************)
Abs(x) == IF x < 0 THEN -x ELSE x

\* x / y rounded to the nearest integer, ties to even (np.round; IEEE
\* round-to-nearest-even of a quotient).  y # 0.
RoundDiv(x, y) ==
    LET xx == IF y < 0 THEN -x ELSE x
        yy == Abs(y)
        q  == xx \div yy
        r  == xx % yy
    IN  IF 2 * r < yy THEN q
        ELSE IF 2 * r > yy THEN q + 1
        ELSE IF q % 2 = 0 THEN q ELSE q + 1

\* range(n): the indices of an array of length n (empty when n <= 0)
Range(n) == 0 .. (n - 1)

\* np.full(n, v) / np.zeros(n)
Full(n, v) == [k \in Range(n) |-> v]

\* length of an array (shape[0])
Size(arr) == Cardinality(DOMAIN arr)

\* round(e^x) for x = 0, 1, 2, ...
ExpTable == <<1, 3, 7, 20, 55, 148, 403, 1097, 2981>>

\* np.exp(x)
Exp(x) ==
    IF x < 0 THEN 0
    ELSE IF x >= Len(ExpTable) THEN ExpTable[Len(ExpTable)]
    ELSE ExpTable[x + 1]

(***************************************************************************)
(* simulate_adex, as operators on the frame of one call                    *)
(***************************************************************************)
\* the locals of a call that has not started
Frame0 ==
    [pc |-> "call", err |-> "none", n_steps |-> 0,
     t |-> Full(0, 0), I |-> Full(0, 0), V |-> Full(0, 0), w |-> Full(0, 0),
     spike_times |-> <<>>, i |-> 0]

Raise(f, e) == [f EXCEPT !.pc = "error", !.err = e]

\* n_steps = int(np.round(T / dt))
NSteps(c) == RoundDiv(c.T, c.dt)

\* lines 83-84: T / dt raises for dt = 0; np.arange(n) is empty for n <= 0
Entry(c, f) ==
    IF c.dt = 0 THEN Raise(f, "ZeroDivisionError")
    ELSE [f EXCEPT !.pc = "input",
                   !.n_steps = NSteps(c),
                   !.t = [k \in Range(NSteps(c)) |-> k * c.dt]]

\* lines 86-94: np.full raises ValueError for a negative length; a sequence
\* whose length differs from n_steps raises ValueError
HandleInput(c, f) ==
    IF c.I_ext.scalar
    THEN IF f.n_steps < 0 THEN Raise(f, "ValueError: negative dimensions")
         ELSE [f EXCEPT !.pc = "alloc", !.I = Full(f.n_steps, c.I_ext.val)]
    ELSE IF Size(c.I_ext.arr) # f.n_steps
         THEN Raise(f, "ValueError: I_ext length does not match n_steps")
         ELSE [f EXCEPT !.pc = "alloc", !.I = c.I_ext.arr]

\* V[0]: EL when V0 is None
InitialV(c) == IF c.V0.none THEN c.EL ELSE c.V0.val

\* lines 96-107: the buffers, then the initial conditions; V[0] = ... raises
\* IndexError on an empty buffer.  (n_steps < 0 never gets here.)
Allocate(c, f) ==
    IF f.n_steps = 0
    THEN [Raise(f, "IndexError") EXCEPT !.V = Full(0, 0), !.w = Full(0, 0)]
    ELSE [f EXCEPT !.pc = "loop",
                   !.V = [Full(f.n_steps, 0) EXCEPT ![0] = InitialV(c)],
                   !.w = [Full(f.n_steps, 0) EXCEPT ![0] = c.w0],
                   !.spike_times = <<>>,
                   !.i = 0]

\* mutant of SpikeCondition: the cutoff itself does not count as a spike
SpikeCondition_Strict(v, c) == v > c.V_spike

\* line 112: if V[i] >= V_spike
SpikeCondition(v, c) == v >= c.V_spike

\* mutant of SpikeW: the spike-triggered increment is forgotten
SpikeW_NoIncrement(wv, c) == wv

\* line 118: w[i] + b
SpikeW(wv, c) == wv + c.b

\* lines 113-122: the spike branch of one iteration
SpikeStep(c, f) ==
    [f EXCEPT !.V = [f.V EXCEPT ![f.i] = c.V_spike, ![f.i + 1] = c.V_reset],
              !.w = [f.w EXCEPT ![f.i + 1] = SpikeW(f.w[f.i], c)],
              !.spike_times = Append(f.spike_times, f.t[f.i]),
              !.i = f.i + 1]

\* line 127: np.exp((V[i] - VT) / DeltaT)
ExponentialTerm(v, c) == Exp(RoundDiv(v - c.VT, c.DeltaT))

\* mutant of DVdt: the input current enters with the wrong sign
DVdt_MinusI(v, wv, Iv, c) ==
    RoundDiv(-c.gL * (v - c.EL) + c.gL * c.DeltaT * ExponentialTerm(v, c)
             - wv - Iv,
             c.C)

\* lines 131-136
DVdt(v, wv, Iv, c) ==
    RoundDiv(-c.gL * (v - c.EL) + c.gL * c.DeltaT * ExponentialTerm(v, c)
             - wv + Iv,
             c.C)

\* mutant of Dwdt: a multiplies V alone (parentheses lost)
Dwdt_MissingParens(v, wv, c) == RoundDiv(c.a * v - c.EL - wv, c.tau_w)

\* line 140
Dwdt(v, wv, c) == RoundDiv(c.a * (v - c.EL) - wv, c.tau_w)

\* lines 124-144: the Euler branch of one iteration
EulerStep(c, f) ==
    LET v  == f.V[f.i]
        wv == f.w[f.i]
    IN  [f EXCEPT !.V = [f.V EXCEPT ![f.i + 1] = v + c.dt * DVdt(v, wv, f.I[f.i], c)],
                  !.w = [f.w EXCEPT ![f.i + 1] = wv + c.dt * Dwdt(v, wv, c)],
                  !.i = f.i + 1]

\* line 110: for i in range(n_steps - 1)
LoopRuns(f) == f.i < f.n_steps - 1

\* lines 110-144: one iteration
Iterate(c, f) ==
    IF SpikeCondition(f.V[f.i], c) THEN SpikeStep(c, f) ELSE EulerStep(c, f)

\* line 146
Return(f) == [f EXCEPT !.pc = "done"]

\* simulate_adex(**c): the call run to its return or its exception
RECURSIVE Run(_, _)
Run(c, f) ==
    CASE f.pc = "call"  -> Run(c, Entry(c, f))
      [] f.pc = "input" -> Run(c, HandleInput(c, f))
      [] f.pc = "alloc" -> Run(c, Allocate(c, f))
      [] f.pc = "loop"  -> IF LoopRuns(f) THEN Run(c, Iterate(c, f)) ELSE Return(f)
      [] OTHER          -> f

SimulateAdex(c) == Run(c, Frame0)

(***************************************************************************)
(* compute_firing_rate                                                     *)
(***************************************************************************)
RECURSIVE GCD(_, _)
GCD(x, y) == IF y = 0 THEN Abs(x) ELSE GCD(y, x % Abs(y))

\* the quotient n / d (d # 0) as a reduced fraction <<numerator, denominator>>
Frac(n, d) ==
    LET g == GCD(n, d)
        s == IF d < 0 THEN -1 ELSE 1
    IN  <<(s * n) \div g, (s * d) \div g>>

\* x / y for fractions x, y (y # 0)
FracDiv(x, y) == Frac(x[1] * y[2], x[2] * y[1])

Zero == Frac(0, 1)

\* mutant of InWindow: the window start is exclusive
InWindow_StrictStart(s, T_ms, steady_window_ms) ==
    LET window_start == T_ms - steady_window_ms
    IN  s > window_start /\ s <= T_ms

\* line 157: (spike_times_ms >= window_start) & (spike_times_ms <= T_ms)
InWindow(s, T_ms, steady_window_ms) ==
    LET window_start == T_ms - steady_window_ms
    IN  s >= window_start /\ s <= T_ms

\* line 158: mask.sum()
NSpikesWindow(spike_times_ms, T_ms, steady_window_ms) ==
    Cardinality({k \in 1 .. Len(spike_times_ms) :
                    InWindow(spike_times_ms[k], T_ms, steady_window_ms)})

\* mutant of ComputeFiringRate: the window is not converted from ms to s
ComputeFiringRate_NoConversion(spike_times_ms, T_ms, steady_window_ms) ==
    IF Len(spike_times_ms) = 0 THEN Zero
    ELSE IF steady_window_ms <= 0 THEN Zero
    ELSE FracDiv(Frac(NSpikesWindow(spike_times_ms, T_ms, steady_window_ms), 1),
                 Frac(steady_window_ms, 1))

\* lines 151-164
ComputeFiringRate(spike_times_ms, T_ms, steady_window_ms) ==
    IF Len(spike_times_ms) = 0 THEN Zero
    ELSE IF steady_window_ms <= 0 THEN Zero
    ELSE FracDiv(Frac(NSpikesWindow(spike_times_ms, T_ms, steady_window_ms), 1),
                 FracDiv(Frac(steady_window_ms, 1), Frac(1000, 1)))

(***************************************************************************)
(* experiment_fi_curve: one pass of its loop over the currents             *)
(***************************************************************************)
\* lines 186-198: run the neuron at current Iv, reduce the spikes to a rate.
\* An exception of simulate_adex leaves the loop.  counts records
\* len(spikes) of each call next to the rate the code keeps.
SweepPoint(c, sw) ==
    LET r == SimulateAdex([c EXCEPT !.I_ext = [scalar |-> TRUE,
                                                val |-> sw.currents[sw.k + 1],
                                                arr |-> Full(0, 0)]])
    IN  IF r.pc = "error" THEN [sw EXCEPT !.pc = "error"]
        ELSE [sw EXCEPT !.k = sw.k + 1,
                        !.counts = Append(sw.counts, Len(r.spike_times)),
                        !.rates = Append(sw.rates,
                                         ComputeFiringRate(r.spike_times, c.T,
                                                           sw.steady_window_ms))]

(***************************************************************************)
(* The call as a state machine                                             *)
(***************************************************************************)
Frame ==
    [pc |-> pc, err |-> err, n_steps |-> n_steps, t |-> t, I |-> I, V |-> V,
     w |-> w, spike_times |-> spike_times, i |-> i]

Becomes(f) ==
    /\ pc' = f.pc
    /\ err' = f.err
    /\ n_steps' = f.n_steps
    /\ t' = f.t
    /\ I' = f.I
    /\ V' = f.V
    /\ w' = f.w
    /\ spike_times' = f.spike_times
    /\ i' = f.i

\* the locals are those of frame f
Holds(f) ==
    /\ pc = f.pc
    /\ err = f.err
    /\ n_steps = f.n_steps
    /\ t = f.t
    /\ I = f.I
    /\ V = f.V
    /\ w = f.w
    /\ spike_times = f.spike_times
    /\ i = f.i

Call ==
    /\ pc = "call"
    /\ Becomes(Entry(cfg, Frame))
    /\ UNCHANGED <<cfg, est, sweep>>

Input ==
    /\ pc = "input"
    /\ Becomes(HandleInput(cfg, Frame))
    /\ UNCHANGED <<cfg, est, sweep>>

Alloc ==
    /\ pc = "alloc"
    /\ Becomes(Allocate(cfg, Frame))
    /\ UNCHANGED <<cfg, est, sweep>>

Spike ==
    /\ pc = "loop"
    /\ LoopRuns(Frame)
    /\ SpikeCondition(V[i], cfg)
    /\ Becomes(SpikeStep(cfg, Frame))
    /\ UNCHANGED <<cfg, est, sweep>>

Euler ==
    /\ pc = "loop"
    /\ LoopRuns(Frame)
    /\ ~SpikeCondition(V[i], cfg)
    /\ Becomes(EulerStep(cfg, Frame))
    /\ UNCHANGED <<cfg, est, sweep>>

Finish ==
    /\ pc = "loop"
    /\ ~LoopRuns(Frame)
    /\ Becomes(Return(Frame))
    /\ UNCHANGED <<cfg, est, sweep>>

(***************************************************************************)
(* Arguments drawn for a call                                              *)
(***************************************************************************)
Scalar(v) == [scalar |-> TRUE, val |-> v, arr |-> Full(0, 0)]
PerStep(a) == [scalar |-> FALSE, val |-> 0, arr |-> a]
None == [none |-> TRUE, val |-> 0]
Some(v) == [none |-> FALSE, val |-> v]

\* per-step currents: every length up to MaxLen, two value patterns
InputArrays ==
    {[k \in Range(L) |-> IF k % 2 = 0 THEN hi ELSE 1] : L \in 0 .. MaxLen, hi \in {1, 3}}

Configs ==
    [T : {-3, 0} \cup 1 .. MaxT,
     dt : {-1, 0, 1, 2},
     I_ext : {Scalar(v) : v \in {0, 3}} \cup {PerStep(a) : a \in InputArrays},
     C : {1, 2},
     gL : {1},
     EL : {-2},
     VT : {0},
     DeltaT : {-1, 1},
     a : {0, 1},
     tau_w : {-2, 2},
     b : {0, 2},
     V_reset : {-1, 2},
     V_spike : {1},
     V0 : {None, Some(1), Some(3)},
     w0 : {0, 2}]

IdleEst == [pc |-> "idle", spike_times_ms |-> <<>>, T_ms |-> 0,
            steady_window_ms |-> 0, rate_hz |-> Zero]
IdleSweep == [pc |-> "idle", currents |-> <<>>, steady_window_ms |-> 0, k |-> 0,
              counts |-> <<>>, rates |-> <<>>]
IdleFrame == [Frame0 EXCEPT !.pc = "idle"]
IdleCfg == [T |-> 1, dt |-> 1, I_ext |-> Scalar(0), C |-> 1, gL |-> 1, EL |-> 0,
            VT |-> 0, DeltaT |-> 1, a |-> 0, tau_w |-> 1, b |-> 0, V_reset |-> 0,
            V_spike |-> 1, V0 |-> None, w0 |-> 0]

Init ==
    /\ cfg \in Configs
    /\ Holds(Frame0)
    /\ est = IdleEst
    /\ sweep = IdleSweep

Next == Call \/ Input \/ Alloc \/ Spike \/ Euler \/ Finish

Spec == Init /\ [][Next]_vars

(***************************************************************************)
(* compute_firing_rate on drawn arguments                                  *)
(***************************************************************************)
MaxSpikes == 3     \* longest drawn spike list (besides the scenario's)

ScenarioSpikes == <<100, 200, 300, 400, 490>>

SpikeLists ==
    {ScenarioSpikes} \cup UNION {[1 .. L -> 0 .. 3] : L \in 0 .. MaxSpikes}

RateArgs ==
    [pc : {"call"},
     spike_times_ms : SpikeLists,
     T_ms : {2, 3, 500},
     steady_window_ms : {-1, 0, 1, 2, 3, 100, 500},
     rate_hz : {Zero}]

InitRate ==
    /\ est \in RateArgs
    /\ cfg = IdleCfg
    /\ Holds(IdleFrame)
    /\ sweep = IdleSweep

Rate ==
    /\ est.pc = "call"
    /\ est' = [est EXCEPT !.pc = "done",
                          !.rate_hz = ComputeFiringRate(est.spike_times_ms, est.T_ms,
                                                        est.steady_window_ms)]
    /\ UNCHANGED <<cfg, pc, err, n_steps, t, I, V, w, spike_times, i, sweep>>

NextRate == Rate

SpecRate == InitRate /\ [][NextRate]_vars

(***************************************************************************)
(* experiment_fi_curve on drawn parameter sets                             *)
(***************************************************************************)
MaxCurrent == 4    \* the sweep runs the currents 0, 1, ..., MaxCurrent
SweepT == 8        \* duration of each run of the sweep

\* Parameter sets of the sweep.  The adapting ones have no leak (gL = 0 also
\* removes the exponential term), C = 1 and tau_w = dt, so every float
\* operation of their runs is exact on integers; the non-adapting ones
\* include leak, with an Euler step that is stable (dt * gL <= C) or not.
SweepConfigs ==
    [T : {SweepT}, dt : {1}, I_ext : {Scalar(0)}, C : {1}, gL : {0},
     EL : {-1, 0}, VT : {0}, DeltaT : {1}, a : {1, 2}, tau_w : {1},
     b : {0, 1, 2}, V_reset : {-1, 0}, V_spike : {1, 2}, V0 : {None}, w0 : {0}]
    \cup
    [T : {SweepT}, dt : {1}, I_ext : {Scalar(0)}, C : {1, 2}, gL : {0, 1, 3},
     EL : {-1, 0}, VT : {0}, DeltaT : {1}, a : {0}, tau_w : {1, 2},
     b : {0}, V_reset : {-1, 0}, V_spike : {1, 2}, V0 : {None}, w0 : {0, 1}]

InitFI ==
    /\ cfg \in SweepConfigs
    /\ sweep \in [pc : {"sweep"},
                  currents : {[k \in 1 .. MaxCurrent + 1 |-> k - 1]},
                  steady_window_ms : {2, 4},
                  k : {0},
                  counts : {<<>>},
                  rates : {<<>>}]
    /\ Holds(IdleFrame)
    /\ est = IdleEst

Point ==
    /\ sweep.pc = "sweep"
    /\ sweep.k < Len(sweep.currents)
    /\ sweep' = SweepPoint(cfg, sweep)
    /\ UNCHANGED <<cfg, pc, err, n_steps, t, I, V, w, spike_times, i, est>>

SweepEnd ==
    /\ sweep.pc = "sweep"
    /\ sweep.k = Len(sweep.currents)
    /\ sweep' = [sweep EXCEPT !.pc = "done"]
    /\ UNCHANGED <<cfg, pc, err, n_steps, t, I, V, w, spike_times, i, est>>

NextFI == Point \/ SweepEnd

SpecFI == InitFI /\ [][NextFI]_vars

(***************************************************************************)
(* Properties of simulate_adex (checked under Spec)                        *)
(***************************************************************************)
\* the configuration invariant of the data model: dt, T, DeltaT, tau_w > 0
ValidConfig(c) == c.dt > 0 /\ c.T > 0 /\ c.DeltaT > 0 /\ c.tau_w > 0

\* the input current is a scalar or a sequence of length round(T / dt)
InputMatches(c) == c.I_ext.scalar \/ Size(c.I_ext.arr) = NSteps(c)

Started == pc \in {"loop", "done"}

\* the entries of the spike-time list
SpikeSet == {spike_times[k] : k \in 1 .. Len(spike_times)}

\* C1: a call with DeltaT <= 0, tau_w <= 0, dt <= 0 or T <= 0 is rejected at
\* entry, so it never returns a trace.
C1_NoTraceForInvalidConfig == pc = "done" => ValidConfig(cfg)

\* C2: with a per-step input current the call succeeds if and only if the
\* length of the sequence is n_steps: the only failure is the length
\* mismatch, a mismatch fails before the first step, and the sequence is used
\* as given.
C2_SucceedsIffLengthMatches ==
    (ValidConfig(cfg) /\ ~cfg.I_ext.scalar) =>
        /\ pc = "error" =>
              /\ Size(cfg.I_ext.arr) # NSteps(cfg)
              /\ err = "ValueError: I_ext length does not match n_steps"
        /\ Size(cfg.I_ext.arr) # NSteps(cfg) => ~Started
        /\ pc \in {"alloc", "loop", "done"} => I = cfg.I_ext.arr

\* C3: a valid configuration with a matching input current never fails, and
\* returns after exactly n_steps - 1 iterations with t, V, w of length
\* n_steps = round(T / dt) and t[k] = k * dt.
C3_ValidRunCompletes ==
    (ValidConfig(cfg) /\ InputMatches(cfg)) =>
        /\ pc # "error"
        /\ pc = "done" =>
              /\ n_steps = NSteps(cfg)
              /\ i = n_steps - 1
              /\ Size(t) = n_steps /\ Size(V) = n_steps /\ Size(w) = n_steps
              /\ \A k \in Range(n_steps) : t[k] = k * cfg.dt

\* C4 as stated: every iteration that starts with V[i] >= V_spike appends
\* t[i], sets V[i+1] = V_reset and w[i+1] = w[i] + b; and in the returned
\* trace of a call with V0 >= V_spike and n_steps >= 2, spike_times[0] = 0,
\* V[1] = V_reset and w[1] = w0 + b.
C4_FirstSampleSpikeReturned ==
    (pc = "done" /\ ValidConfig(cfg) /\ InitialV(cfg) >= cfg.V_spike /\ n_steps >= 2) =>
        /\ Len(spike_times) >= 1
        /\ spike_times[1] = 0
        /\ V[1] = cfg.V_reset
        /\ w[1] = cfg.w0 + cfg.b

\* C4 amended: the iteration is the discrete jump as stated (the first
\* conjunct); in the returned trace spike_times[0] = 0 and w[1] = w0 + b, and
\* V[1] = V_reset unless V_reset > V_spike and n_steps >= 3, where iteration 1
\* has clamped V[1] to V_spike.
C4_SpikeStepIsJump ==
    /\ [][(pc = "loop" /\ LoopRuns(Frame) /\ V[i] >= cfg.V_spike) =>
            /\ spike_times' = Append(spike_times, t[i])
            /\ V'[i] = cfg.V_spike
            /\ V'[i + 1] = cfg.V_reset
            /\ w'[i + 1] = w[i] + cfg.b
            /\ \A k \in Range(n_steps) \ {i, i + 1} : V'[k] = V[k] /\ w'[k] = w[k]
            /\ i' = i + 1]_vars
    /\ []((pc = "done" /\ InitialV(cfg) >= cfg.V_spike /\ n_steps >= 2) =>
            /\ Len(spike_times) >= 1
            /\ spike_times[1] = 0
            /\ w[1] = cfg.w0 + cfg.b
            /\ IF cfg.V_reset > cfg.V_spike /\ n_steps >= 3
               THEN V[1] = cfg.V_spike
               ELSE V[1] = cfg.V_reset)

\* C4 witness: a returned trace whose first sample spiked and whose reset
\* value, above the cutoff, was clamped by the next iteration.
C4_Witness ==
    /\ pc = "done" /\ ValidConfig(cfg) /\ InitialV(cfg) > cfg.V_spike /\ n_steps >= 3
    /\ cfg.V_reset > cfg.V_spike /\ cfg.b > 0
    /\ spike_times[1] = 0 /\ V[1] = cfg.V_spike /\ w[1] = cfg.w0 + cfg.b

\* C5 as stated: with a = 0 and b = 0 every written sample of w equals w0,
\* whatever w0 is.
C5_WStaysAtW0 ==
    (Started /\ ValidConfig(cfg) /\ cfg.a = 0 /\ cfg.b = 0) =>
        \A k \in 0 .. i : w[k] = cfg.w0

\* C5 amended: with a = 0, b = 0 and w0 = 0 every sample of w is 0, before
\* and after any spike (a nonzero w0 decays with time constant tau_w).
C5_WStaysAtZero ==
    (Started /\ ValidConfig(cfg) /\ cfg.a = 0 /\ cfg.b = 0 /\ cfg.w0 = 0) =>
        \A k \in Range(n_steps) : w[k] = 0

\* C5 witness: a returned non-adapting trace from w0 = 0 with Euler steps
\* away from the leak potential and at least one spike.
C5_Witness ==
    /\ pc = "done" /\ ValidConfig(cfg) /\ cfg.a = 0 /\ cfg.b = 0 /\ cfg.w0 = 0
    /\ n_steps >= 4 /\ Len(spike_times) >= 1 /\ spike_times[1] > 0
    /\ \A k \in Range(n_steps) : w[k] = 0

\* C6: during the loop and in the returned trace the spike-time list is
\* strictly increasing, each entry is a sample time t[k] and is below T, and
\* the list is as long as the number of iterations that took the spike
\* branch (the processed samples left clamped at V_spike).
C6_SpikeTimesOrdered ==
    Started =>
        /\ \A j, k \in 1 .. Len(spike_times) : j < k => spike_times[j] < spike_times[k]
        /\ \A k \in 1 .. Len(spike_times) :
              /\ \E m \in Range(n_steps) : spike_times[k] = t[m]
              /\ spike_times[k] < cfg.T
        /\ Len(spike_times) = Cardinality({m \in 0 .. i - 1 : V[m] = cfg.V_spike})

\* C10: in the returned trace every sample but the last is <= V_spike and is
\* in the spike list exactly when it equals V_spike; the last sample is what
\* the last iteration wrote (or the initial value), unclamped, and its time
\* is not in the spike list.
C10_LastSampleUnexamined ==
    pc = "done" =>
        /\ \A k \in 0 .. n_steps - 2 :
              /\ V[k] <= cfg.V_spike
              /\ (t[k] \in SpikeSet) <=> (V[k] = cfg.V_spike)
        /\ t[n_steps - 1] \notin SpikeSet
        /\ IF n_steps = 1 THEN V[0] = InitialV(cfg)
           ELSE V[n_steps - 1] =
                  IF V[n_steps - 2] = cfg.V_spike THEN cfg.V_reset
                  ELSE V[n_steps - 2]
                       + cfg.dt * DVdt(V[n_steps - 2], w[n_steps - 2], I[n_steps - 2], cfg)

\* C10 witness: a returned trace with spikes whose last sample is above the
\* cutoff.
C10_Witness ==
    /\ pc = "done" /\ n_steps >= 3 /\ Len(spike_times) >= 1
    /\ V[n_steps - 1] > cfg.V_spike
    /\ ~SpikeCondition(V[n_steps - 2], cfg)

(***************************************************************************)
(* Properties of compute_firing_rate (checked under SpecRate)              *)
(***************************************************************************)
\* the spikes s with T - window <= s <= T
SpikesInWindow ==
    {k \in 1 .. Len(est.spike_times_ms) :
        /\ est.T_ms - est.steady_window_ms <= est.spike_times_ms[k]
        /\ est.spike_times_ms[k] <= est.T_ms}

\* C7: the rate is non-negative; it is 0 for an empty spike list and for a
\* window <= 0, otherwise count / (window / 1000) with both ends of the
\* window inclusive.
C7_RateFormula ==
    est.pc = "done" =>
        /\ est.rate_hz[1] >= 0 /\ est.rate_hz[2] > 0
        /\ IF Len(est.spike_times_ms) = 0 \/ est.steady_window_ms <= 0
           THEN est.rate_hz[1] = 0
           ELSE est.rate_hz[1] * est.steady_window_ms
                  = est.rate_hz[2] * 1000 * Cardinality(SpikesInWindow)

\* C7 witness: a positive rate with a spike exactly on each end of the window.
C7_Witness ==
    /\ est.pc = "done" /\ est.steady_window_ms > 0 /\ est.rate_hz[1] > 0
    /\ \E k \in SpikesInWindow :
          est.spike_times_ms[k] = est.T_ms - est.steady_window_ms
    /\ \E k \in SpikesInWindow : est.spike_times_ms[k] = est.T_ms
    /\ Cardinality(SpikesInWindow) < Len(est.spike_times_ms)

Scenario(window) ==
    /\ est.pc = "done"
    /\ est.spike_times_ms = ScenarioSpikes
    /\ est.T_ms = 500
    /\ est.steady_window_ms = window

\* C8 as stated: the scenario's spikes give 10 Hz with window 500 and also
\* 10 Hz with window 100.
C8_ScenarioTenHz ==
    /\ Scenario(500) => est.rate_hz = Frac(10, 1)
    /\ Scenario(100) => est.rate_hz = Frac(10, 1)

\* C8 amended: 10 Hz with window 500; with window 100 the spikes at 400 (on
\* the window start, which is inclusive) and at 490 both count: 20 Hz.
C8_ScenarioRates ==
    /\ Scenario(500) => est.rate_hz = Frac(10, 1)
    /\ Scenario(100) => est.rate_hz = Frac(20, 1)

\* C8 witness: the scenario with window 100 has been computed.
C8_Witness == Scenario(100) /\ est.rate_hz = Frac(20, 1)

(***************************************************************************)
(* Properties of the sweep (checked under SpecFI)                          *)
(***************************************************************************)
\* the spike counts recorded so far do not decrease along the currents
CountsNonDecreasing ==
    \A j, k \in 1 .. Len(sweep.counts) : j <= k => sweep.counts[j] <= sweep.counts[k]

====
